---------------------------- MODULE Spec2Model ----------------------------
(***************************************************************************)
(* A model of the source-reorganization scripts under src/scripts.         *)
(*                                                                         *)
(* Text.  A buffer is a sequence of tokens.  A token is a record           *)
(* [k |-> kind, n |-> name]; the name is a tuple of letters and is <<>>    *)
(* for every kind but "T".  Each token stands for a piece of Go text that  *)
(* the regular expressions of the scripts treat as a unit:                 *)
(*                                                                         *)
(*   NL    "\n"                          (the only whitespace token)       *)
(*   CMT   "//"                          (a comment opener, not at "^")    *)
(*   PKG   "package p"                   (matches ^package\s+\w+)          *)
(*   DPKG  the script's fallback package clause, e.g. "package database"   *)
(*   IMP   "import (\n\t\"testing\"\n)"  (matches import\s+\([^)]+\))      *)
(*   IMP1  "import \"testing\""            (an import without parentheses:  *)
(*                                        matches no pattern)               *)
(*   HLP   "func helper() {}"            (matches no pattern)              *)
(*   SP    a line that contains the identifier stringPtr                   *)
(*   MARK  "// Helper functions"                                           *)
(*   T(n)  "func Test<n>(t *testing.T) {"  (matches the test pattern, and  *)
(*         ^func Test\w+ when it stands at the start of a line)            *)
(*   N     "func TestMain() {"  (no parameters: matches ^func Test\w+ at   *)
(*         the start of a line, never the test pattern)                    *)
(***************************************************************************)
EXTENDS Integers, Sequences, FiniteSets, Bags, TLC

VARIABLES
    \* a run of a split_* script
    script,     \* which split_* script runs
    content,    \* the source buffer main() reads
    pc,         \* "start", "done" (main returned) or "error" (main raised)
    sections,   \* the dict split_tests returned
    outputs,    \* category label -> content of the file main() wrote (<<>>: none)
    \* a call of categorize_test
    table,      \* the ordered rule table (CATEGORIES)
    name,       \* the test name
    label,      \* the returned label, "" before the call
    \* calls of remove_mock_declarations on one file
    dsrc,       \* the file before the first call
    dfile,      \* the file on disk
    dret,       \* what each call returned, in order
    dwrites,    \* how often the file was written
    \* runs of find_and_move_helper_to_shared
    rfiles,     \* the source files, in glob order
    rshared,    \* the destination file
    rlast,      \* how the last run ended: "ok" or the exception
    rhist,      \* the files before the first run and after each run
    \* main() of a batch script
    bscript,    \* which script runs
    bsrc,       \* the files of the batch before main() runs
    bfiles,     \* the files of the batch
    bresults,   \* per file or step handled so far: TRUE (succeeded) or FALSE
    bexit,      \* the exit status of the process, "running" until it ends
    \* main() of generate_mock_stubs
    gbody,      \* the lines between the braces of the interface declaration
    gstubs,     \* the stubs printed, in order
    gpc         \* "start" or "done"

pvars == <<script, content, pc, sections, outputs>>
cvars == <<table, name, label>>
dvars == <<dsrc, dfile, dret, dwrites>>
rvars == <<rfiles, rshared, rlast, rhist>>
bvars == <<bscript, bsrc, bfiles, bresults, bexit>>
gvars == <<gbody, gstubs, gpc>>

-----------------------------------------------------------------------------
(* Bounds of the model *)

MaxLines == 3
MaxRules == 2
MaxNameLen == 3
MaxChunks == 4
MaxRuns == 2
MaxFiles == 2
MaxHelperChunks == 2
MaxFixLines == 3
MaxBatchChunks == 2
MaxImportLines == 2
MaxSigs == 2
MaxFixFiles == 2
MaxShortLines == 2
MaxStopFiles == 2
MaxStopChunks == 1

-----------------------------------------------------------------------------
(* Tokens and lines *)

Tok(kind) == [k |-> kind, n |-> <<>>]
TestTok(nm) == [k |-> "T", n |-> nm]
NL == Tok("NL")

\* Test names (the part after "Test"), as tuples of letters.
Names == { <<"I">>, <<"U", "I">>, <<"Q">> }

\* The lines an input file is made of.  Kind "C" is a commented-out test
\* header "//func Test<n>(t *testing.T) {", kind "BL" an empty line.
LineKinds ==
    { Tok(x) : x \in {"PKG", "IMP", "IMP1", "HLP", "SP", "MARK", "N", "BL"} }
      \cup { [k |-> x, n |-> nm] : x \in {"T", "C"}, nm \in Names }

LineTokens(line) ==
    CASE line.k = "BL" -> <<NL>>
      [] line.k = "C"  -> <<Tok("CMT"), TestTok(line.n), NL>>
      [] OTHER         -> <<line, NL>>

RECURSIVE Flatten(_)
Flatten(ss) == IF ss = <<>> THEN <<>> ELSE Head(ss) \o Flatten(Tail(ss))

RECURSIVE SeqsUpTo(_, _)
SeqsUpTo(S, n) ==
    IF n = 0 THEN { <<>> }
    ELSE LET shorter == SeqsUpTo(S, n - 1)
         IN  shorter \cup { Append(s, x) : s \in shorter, x \in S }

Buffers == { Flatten([i \in 1..Len(ls) |-> LineTokens(ls[i])])
               : ls \in SeqsUpTo(LineKinds, MaxLines) }

Min(S) == CHOOSE x \in S : \A y \in S : x <= y
Max(S) == CHOOSE x \in S : \A y \in S : x >= y

-----------------------------------------------------------------------------
(* str methods *)

\* s.rstrip()
RStrip(s) ==
    LET keep == { i \in 1..Len(s) : s[i] # NL }
    IN  IF keep = {} THEN <<>> ELSE SubSeq(s, 1, Max(keep))

\* s.strip()
Strip(s) ==
    LET keep == { i \in 1..Len(s) : s[i] # NL }
    IN  IF keep = {} THEN <<>> ELSE SubSeq(s, Min(keep), Max(keep))

\* sep.join(parts)
RECURSIVE Join(_, _)
Join(parts, sep) ==
    IF parts = <<>> THEN <<>>
    ELSE IF Len(parts) = 1 THEN parts[1]
    ELSE parts[1] \o sep \o Join(Tail(parts), sep)

\* s[from:] with a 0-based offset
From(s, off) == SubSeq(s, off + 1, Len(s))

-----------------------------------------------------------------------------
(* CategoryClassifier *)

\* keyword in test_name
IsSubstring(kw, nm) ==
    \E i \in 0..(Len(nm) - Len(kw)) : SubSeq(nm, i + 1, i + Len(kw)) = kw

RuleMatches(rule, nm) ==
    \E j \in 1..Len(rule.keywords) : IsSubstring(rule.keywords[j], nm)

\* The loop of categorize_test over an ordered table (a dict keeps insertion
\* order): the first rule with a matching keyword returns.
CategorizeLast(tbl, nm) ==
    LET hits == { i \in 1..Len(tbl) : RuleMatches(tbl[i], nm) }
    IN  IF hits = {} THEN "misc" ELSE tbl[Max(hits)].label

RECURSIVE CategorizeFrom(_, _, _)
CategorizeFrom(tbl, nm, i) ==
    IF i > Len(tbl) THEN "misc"
    ELSE IF RuleMatches(tbl[i], nm) THEN tbl[i].label
    ELSE CategorizeFrom(tbl, nm, i + 1)

CategorizeIn(tbl, nm) == CategorizeFrom(tbl, nm, 1)

\* The rule table of the partitioner runs, after the example of the spec.
CATEGORIES ==
    << [label |-> "insert", keywords |-> << <<"I">> >>],
       [label |-> "upsert", keywords |-> << <<"U">> >>] >>

categorize_test(test_name) == CategorizeIn(CATEGORIES, test_name)

Labels == { CATEGORIES[i].label : i \in 1..Len(CATEGORIES) } \cup {"misc"}

-----------------------------------------------------------------------------
(* Regular expressions of the split_* scripts *)

AtLineStart(s, i) == i = 1 \/ s[i - 1] = NL

\* re.search(r'^func Test\w+', s, re.MULTILINE): index of the match, 0 if none
SearchFirstTest(s) ==
    LET hits == { i \in 1..Len(s) : s[i].k \in {"T", "N"} /\ AtLineStart(s, i) }
    IN  IF hits = {} THEN 0 ELSE Min(hits)

\* re.search(r'^package\s+\w+', s, re.MULTILINE)
SearchPackage(s) ==
    LET hits == { i \in 1..Len(s) : s[i].k = "PKG" /\ AtLineStart(s, i) }
    IN  IF hits = {} THEN 0 ELSE Min(hits)

\* re.search(r'import\s+\([^)]+\)', s, re.DOTALL)
SearchImportsOneLine(s) == 0

SearchImports(s) ==
    LET hits == { i \in 1..Len(s) : s[i].k = "IMP" }
    IN  IF hits = {} THEN 0 ELSE Min(hits)

\* re.finditer(test_pattern, s): the (test_name, start_pos) pairs in document
\* order; start is the 1-based index of the match.
RECURSIVE ScanFrom(_, _)
ScanFrom(s, i) ==
    IF i > Len(s) THEN <<>>
    ELSE IF s[i].k = "T"
         THEN <<[name |-> s[i].n, start |-> i]>> \o ScanFrom(s, i + 1)
         ELSE ScanFrom(s, i + 1)

TestPositions(s) == ScanFrom(s, 1)

-----------------------------------------------------------------------------
(* Partitioner: split_tests, generate_file_content and main of each script *)

NoTests == [c \in Labels |-> <<>>]

\* The dict split_tests returns; err names the exception when it raised.
\* helpers is <<>> where the script's dict has no such key.
Sections(err, package, imports, helpers, tests) ==
    [err |-> err, package |-> package, imports |-> imports,
     helpers |-> helpers, tests |-> tests]

NoSections == Sections("", <<>>, <<>>, <<>>, NoTests)

\* extract_test_helpers(content)
extract_test_helpers(s) ==
    LET first_test == SearchFirstTest(s)
    IN  IF first_test # 0
        THEN RStrip(SubSeq(s, 1, first_test - 1)) \o <<NL, NL>>
        ELSE <<>>

\* Last index (1-based, inclusive) of the last test of split_tautulli_tests:
\* re.search(r'\n// Helper functions', content[start_pos:]) cuts it before the
\* newline that precedes the first marker after the test's start.
TautulliLastEnd(s, start) ==
    LET hits == { j \in (start + 1)..Len(s) : s[j].k = "MARK" /\ s[j - 1] = NL }
    IN  IF hits = {} THEN Len(s) ELSE Min(hits) - 2

\* The loop "for i, (test_name, start_pos) in enumerate(test_positions)":
\* each test runs to the start of the next one, the last to last_end.
RECURSIVE CollectPrepend(_, _, _, _, _)
CollectPrepend(s, pos, i, last_end, acc) ==
    IF i > Len(pos) THEN acc
    ELSE LET end_pos == IF i < Len(pos) THEN pos[i + 1].start - 1 ELSE last_end
             test_content == RStrip(SubSeq(s, pos[i].start, end_pos)) \o <<NL>>
             category == categorize_test(pos[i].name)
         IN  CollectPrepend(s, pos, i + 1, last_end,
                            [acc EXCEPT ![category] = <<test_content>> \o @])

RECURSIVE CollectTests(_, _, _, _, _)
CollectTests(s, pos, i, last_end, acc) ==
    IF i > Len(pos) THEN acc
    ELSE LET end_pos == IF i < Len(pos) THEN pos[i + 1].start - 1 ELSE last_end
             test_content == RStrip(SubSeq(s, pos[i].start, end_pos)) \o <<NL>>
             category == categorize_test(pos[i].name)
         IN  CollectTests(s, pos, i + 1, last_end,
                          [acc EXCEPT ![category] = Append(@, test_content)])

CategorizedTests(s, last_end) ==
    CollectTests(s, TestPositions(s), 1, last_end, NoTests)

\* split_crud_tests.split_tests
SplitCrud(s) ==
    LET helpers == extract_test_helpers(s)
        package_match == SearchPackage(helpers)
        imports_match == SearchImports(helpers)
        package_line == IF package_match # 0 THEN <<helpers[package_match]>>
                        ELSE <<Tok("DPKG")>>
        imports_section == IF imports_match # 0 THEN <<helpers[imports_match]>>
                           ELSE <<>>
        helper_start == IF imports_match # 0 THEN imports_match
                        ELSE IF package_match # 0 THEN package_match ELSE 0
        helper_funcs == Strip(From(helpers, helper_start))
    IN  Sections("", package_line, imports_section, helper_funcs,
                 CategorizedTests(s, Len(s)))

\* split_manager_tests.split_tests: package_match.end() is evaluated on None
\* when neither pattern matches.
SplitManager(s) ==
    LET helpers == extract_test_helpers(s)
        package_match == SearchPackage(helpers)
        imports_match == SearchImports(helpers)
        package_line == IF package_match # 0 THEN <<helpers[package_match]>>
                        ELSE <<Tok("DPKG")>>
        imports_section == IF imports_match # 0 THEN <<helpers[imports_match]>>
                           ELSE <<>>
        helper_start == IF imports_match # 0 THEN imports_match ELSE package_match
        helper_funcs == Strip(From(helpers, helper_start))
    IN  IF imports_match = 0 /\ package_match = 0
        THEN Sections("AttributeError", <<>>, <<>>, <<>>, NoTests)
        ELSE Sections("", package_line, imports_section, helper_funcs,
                      CategorizedTests(s, Len(s)))

\* split_handlers_tests.split_tests
SplitHandlers(s) ==
    LET package_match == SearchPackage(s)
        imports_match == SearchImports(s)
        package_line == IF package_match # 0 THEN <<s[package_match]>>
                        ELSE <<Tok("DPKG")>>
        imports_section == IF imports_match # 0 THEN <<s[imports_match]>>
                           ELSE <<>>
    IN  Sections("", package_line, imports_section, <<>>,
                 CategorizedTests(s, Len(s)))

\* re.search(r'// Helper functions.*$', content, re.DOTALL).group(0)
HelperRegion(s) ==
    LET hits == { i \in 1..Len(s) : s[i].k = "MARK" }
    IN  IF hits = {} THEN <<>> ELSE SubSeq(s, Min(hits), Len(s))

\* split_tautulli_tests.split_tests
SplitTautulli(s) ==
    LET package_match == SearchPackage(s)
        imports_match == SearchImports(s)
        package_line == IF package_match # 0 THEN <<s[package_match]>>
                        ELSE <<Tok("DPKG")>>
        imports_section == IF imports_match # 0 THEN <<s[imports_match]>>
                           ELSE <<>>
        pos == TestPositions(s)
        last_end == IF pos = <<>> THEN Len(s)
                    ELSE TautulliLastEnd(s, pos[Len(pos)].start)
    IN  Sections("", package_line, imports_section, HelperRegion(s),
                 CategorizedTests(s, last_end))

\* generate_file_content of split_crud_tests and split_manager_tests
GenerateWithHelpers(package, imports, helpers, tests) ==
    package \o <<NL, NL>> \o imports \o <<NL, NL>>
      \o (IF Strip(helpers) # <<>> THEN helpers \o <<NL, NL>> ELSE <<>>)
      \o Join(tests, <<NL>>)

\* generate_file_content of split_handlers_tests
GenerateHandlers(package, imports, tests) ==
    package \o <<NL, NL>> \o imports \o <<NL, NL>> \o Join(tests, <<NL>>)

\* 'stringPtr' in text
HasStringPtr(text) == \E i \in 1..Len(text) : text[i].k = "SP"

\* generate_file_content of split_tautulli_tests
GenerateTautulli(package, imports, tests, helpers) ==
    package \o <<NL, NL>> \o imports \o <<NL, NL>> \o Join(tests, <<NL>>)
      \o (IF helpers # <<>> /\ HasStringPtr(Join(tests, <<NL>>))
          THEN <<NL>> \o helpers ELSE <<>>)

split_tests(which, s) ==
    CASE which = "crud"     -> SplitCrud(s)
      [] which = "manager"  -> SplitManager(s)
      [] which = "handlers" -> SplitHandlers(s)
      [] which = "tautulli" -> SplitTautulli(s)

generate_file_content(which, sec, tests) ==
    CASE which \in {"crud", "manager"} ->
             GenerateWithHelpers(sec.package, sec.imports, sec.helpers, tests)
      [] which = "handlers" ->
             GenerateHandlers(sec.package, sec.imports, tests)
      [] which = "tautulli" ->
             GenerateTautulli(sec.package, sec.imports, tests, sec.helpers)

Scripts == {"crud", "manager", "handlers", "tautulli"}

\* main() of a split_* script: read the source, split it, and write one file
\* per category of sections['tests'].  An exception of split_tests ends main
\* before any file is written.
SplitMain(which) ==
    /\ pc = "start"
    /\ script = which
    /\ LET sec == split_tests(which, content)
       IN  /\ sections' = sec
           /\ IF sec.err # ""
              THEN /\ pc' = "error"
                   /\ UNCHANGED outputs
              ELSE /\ pc' = "done"
                   /\ outputs' = [c \in Labels |->
                                    IF sec.tests[c] = <<>> THEN <<>>
                                    ELSE generate_file_content(which, sec, sec.tests[c])]
    /\ UNCHANGED <<script, content>>

CrudMain == SplitMain("crud") /\ UNCHANGED <<cvars, dvars, rvars, bvars, gvars>>
ManagerMain == SplitMain("manager") /\ UNCHANGED <<cvars, dvars, rvars, bvars, gvars>>
HandlersMain == SplitMain("handlers") /\ UNCHANGED <<cvars, dvars, rvars, bvars, gvars>>
TautulliMain == SplitMain("tautulli") /\ UNCHANGED <<cvars, dvars, rvars, bvars, gvars>>

-----------------------------------------------------------------------------
(* A call of categorize_test on some table and name *)

Letters == {"x", "y"}

ClassNames == SeqsUpTo(Letters, MaxNameLen)

\* The keyword lists of a rule: no keyword, one keyword of one or two letters,
\* or two keywords.
KeywordLists ==
    { <<>>, << <<"x">> >>, << <<"y">> >>, << <<"x", "y">> >>, << <<"y", "y">> >>,
      << <<"x">>, <<"y">> >>, << <<"y", "x">>, <<"x", "x">> >> }

\* The labels of the rules; as in every CATEGORIES of the scripts, none of
\* them is the fallback label.
RuleLabels == {"a", "b", "c"}

\* The keys of a dict are distinct.
Tables ==
    { t \in SeqsUpTo([label : RuleLabels, keywords : KeywordLists], MaxRules) :
        \A i, j \in 1..Len(t) : i # j => t[i].label # t[j].label }

Classify ==
    /\ label = ""
    /\ label' = CategorizeIn(table, name)
    /\ UNCHANGED <<table, name>>
    /\ UNCHANGED <<pvars, dvars, rvars, bvars, gvars>>

-----------------------------------------------------------------------------
(* Deduplicator: remove_mock_declarations                                   *)
(*                                                                         *)
(* Tokens of a file with mock declarations:                                *)
(*   CT   "// Mock database for testing\ntype mockDB struct {...}"          *)
(*   M    "func (m *mockDB) Name(...) ... {...}"                            *)
(*   CT2  "// Mock Tautulli client for testing\ntype mockTautulliClient    *)
(*         struct {...}"                                                    *)
(*   M2   "func (m *mockTautulliClient) Name(...) ... {...}"                *)
(*   F    another function, "func TestA(t *testing.T) {...}"               *)
(*   X    other text without braces, "var x = 1"                           *)
(* Each of CT, M, CT2, M2 and F ends with its closing brace, which is its  *)
(* only "}".                                                               *)
(***************************************************************************)

KindAt(s, i) == IF i >= 1 /\ i <= Len(s) THEN s[i].k ELSE "EOF"

EndsWithBrace(s, i) == KindAt(s, i) \in {"CT", "M", "CT2", "M2", "F"}

\* (?:func \(m \*mockDB\) \w+\([^)]*\)[^{]*\{[^}]+\}\n\n?)+ matched at j: the
\* index of the last token of the run, 0 if no method matches at j.
RECURSIVE DbMethodsEnd(_, _)
DbMethodsEnd(s, j) ==
    IF KindAt(s, j) = "M" /\ KindAt(s, j + 1) = "NL"
    THEN LET e == IF KindAt(s, j + 2) = "NL" THEN j + 2 ELSE j + 1
             more == DbMethodsEnd(s, e + 1)
         IN  IF more # 0 THEN more ELSE e
    ELSE 0

\* mockdb_pattern matched at i: the index of the last token, 0 if no match.
DbMatchEnd(s, i) ==
    IF KindAt(s, i) = "CT" /\ KindAt(s, i + 1) = "NL" /\ KindAt(s, i + 2) = "NL"
    THEN DbMethodsEnd(s, i + 3)
    ELSE 0

\* One method of mockclient_pattern matched at j.  The body
\* (?:[^}]|\}(?!\n\n))+ runs over everything but a "}" that two newlines
\* follow, so the method ends at the first such brace; when there is none the
\* body runs to the end of the buffer and the match backtracks to the last
\* "}" that a newline follows.
ClientMethodEnd(s, j) ==
    IF KindAt(s, j) # "M2" THEN 0
    ELSE LET closers == { e \in j..Len(s) :
                            /\ EndsWithBrace(s, e)
                            /\ KindAt(s, e + 1) = "NL"
                            /\ KindAt(s, e + 2) = "NL" }
             lasts == { e \in j..Len(s) :
                          EndsWithBrace(s, e) /\ KindAt(s, e + 1) = "NL" }
         IN  IF closers # {} THEN Min(closers) + 2
             ELSE IF lasts # {} THEN Max(lasts) + 1
             ELSE 0

RECURSIVE ClientMethodsEnd(_, _)
ClientMethodsEnd(s, j) ==
    LET e == ClientMethodEnd(s, j)
    IN  IF e = 0 THEN 0
        ELSE LET more == ClientMethodsEnd(s, e + 1)
             IN  IF more # 0 THEN more ELSE e

\* mockclient_pattern matched at i
ClientMatchEnd(s, i) ==
    IF KindAt(s, i) = "CT2" /\ KindAt(s, i + 1) = "NL" /\ KindAt(s, i + 2) = "NL"
    THEN ClientMethodsEnd(s, i + 3)
    ELSE 0

\* re.sub(mockdb_pattern, '', content, flags=re.DOTALL), from index i on
RECURSIVE SubDbKeepFirst(_, _)
SubDbKeepFirst(s, i) ==
    IF i > Len(s) THEN <<>>
    ELSE LET e == DbMatchEnd(s, i)
         IN  IF e # 0
             THEN SubSeq(s, i, e) \o
                  (LET RECURSIVE Rest(_)
                       Rest(k) == IF k > Len(s) THEN <<>>
                                  ELSE IF DbMatchEnd(s, k) # 0
                                       THEN Rest(DbMatchEnd(s, k) + 1)
                                       ELSE <<s[k]>> \o Rest(k + 1)
                   IN  Rest(e + 1))
             ELSE <<s[i]>> \o SubDbKeepFirst(s, i + 1)

RECURSIVE SubDb(_, _)
SubDb(s, i) ==
    IF i > Len(s) THEN <<>>
    ELSE LET e == DbMatchEnd(s, i)
         IN  IF e # 0 THEN SubDb(s, e + 1)
             ELSE <<s[i]>> \o SubDb(s, i + 1)

\* re.sub(mockclient_pattern, '', content, flags=re.DOTALL), from index i on
RECURSIVE SubClient(_, _)
SubClient(s, i) ==
    IF i > Len(s) THEN <<>>
    ELSE LET e == ClientMatchEnd(s, i)
         IN  IF e # 0 THEN SubClient(s, e + 1)
             ELSE <<s[i]>> \o SubClient(s, i + 1)

\* The new content remove_mock_declarations computes from the content read.
RemoveMocks(original_content) == SubClient(SubDb(original_content, 1), 1)

\* The chunks a file with mocks is made of: a line of each kind, an empty
\* line, and a type declaration or a client method with the empty line after
\* it.
MockChunks == {"CT", "CTB", "M", "CT2", "CT2B", "M2", "M2B", "F", "X", "BL"}

ChunkTokens(c) ==
    CASE c = "BL"   -> <<NL>>
      [] c = "CTB"  -> <<Tok("CT"), NL, NL>>
      [] c = "CT2B" -> <<Tok("CT2"), NL, NL>>
      [] c = "M2B"  -> <<Tok("M2"), NL, NL>>
      [] OTHER      -> <<Tok(c), NL>>

MockBuffersUpTo(n) ==
    { Flatten([i \in 1..Len(cs) |-> ChunkTokens(cs[i])]) : cs \in SeqsUpTo(MockChunks, n) }

\* remove_mock_declarations(file_path): the file is written only if the
\* content changed, and that is what the call returns.
RemoveMockDeclarations ==
    /\ Len(dret) < MaxRuns
    /\ LET new_content == RemoveMocks(dfile)
       IN  /\ dfile' = new_content
           /\ dret' = Append(dret, new_content # dfile)
           /\ dwrites' = IF new_content # dfile THEN dwrites + 1 ELSE dwrites
    /\ UNCHANGED dsrc
    /\ UNCHANGED <<pvars, cvars, rvars, bvars, gvars>>

-----------------------------------------------------------------------------
(* BlockRelocator: find_and_move_helper_to_shared                           *)
(*                                                                         *)
(* Tokens of a file with the helper:                                       *)
(*   CL   a single-line comment with its newline, "// a comment\n"          *)
(*   H    "func stringPtr(s string) *string {...}" up to its first "}"      *)
(*   HT   the rest of a helper body that has a nested brace pair: the text  *)
(*        after the first "}" and its newlines, up to the closing brace     *)
(*   X    other text, "var x = 1"                                          *)
(***************************************************************************)

\* The pattern of the search (fix_remaining_issues.py:42) is
\*     rf'(// [^\n]*\n)?func {helper_name}\([^{{]+\{{[^}}]+\}})'
\* that is (// [^\n]*\n)?func stringPtr\([^{]+\{[^}]+\}) : its last ")" closes
\* no group, and re.search raises re.error ("unbalanced parenthesis") when it
\* compiles the pattern, whatever the content.
SearchPatternCompiles == FALSE

\* (// [^\n]*\n)?func stringPtr\([^{]+\{[^}]+\} matched at i: the index of the
\* last token, 0 if no match.
HelperMatchEnd(s, i) ==
    IF KindAt(s, i) = "CL" /\ KindAt(s, i + 1) = "H" THEN i + 1
    ELSE IF KindAt(s, i) = "H" THEN i
    ELSE 0

\* re.search(pattern, content, re.DOTALL) of the first loop: err when the call
\* raises, else group(0) of the leftmost match, <<>> for None.
SearchHelper(s) ==
    IF ~SearchPatternCompiles THEN [err |-> TRUE, code |-> <<>>]
    ELSE LET hits == { i \in 1..Len(s) : HelperMatchEnd(s, i) # 0 }
         IN  [err |-> FALSE,
              code |-> IF hits = {} THEN <<>>
                       ELSE SubSeq(s, Min(hits), HelperMatchEnd(s, Min(hits)))]

\* The first loop over the files: helper_code is set by the first file with a
\* match; an exception of re.search leaves the loop and the function.
RECURSIVE SearchLoop(_, _, _)
SearchLoop(files, i, helper_code) ==
    IF i > Len(files) THEN [err |-> FALSE, code |-> helper_code]
    ELSE LET match == SearchHelper(files[i])
         IN  IF match.err THEN [err |-> TRUE, code |-> <<>>]
             ELSE SearchLoop(files, i + 1,
                             IF match.code # <<>> /\ helper_code = <<>>
                             THEN match.code ELSE helper_code)

\* The pattern of the removal with its trailing \n* matched at i
RemovalMatchEnd(s, i) ==
    LET e == HelperMatchEnd(s, i)
    IN  IF e = 0 THEN 0
        ELSE LET stops == { j \in (e + 1)..(Len(s) + 1) : KindAt(s, j) # "NL" }
             IN  Min(stops) - 1

\* re.sub(removal pattern, '', content, flags=re.DOTALL), from index i on
RECURSIVE SubHelper(_, _)
SubHelper(s, i) ==
    IF i > Len(s) THEN <<>>
    ELSE LET e == RemovalMatchEnd(s, i)
         IN  IF e # 0 THEN SubHelper(s, e + 1)
             ELSE <<s[i]>> \o SubHelper(s, i + 1)

MoveHelperStripFirst(files, shared) ==
    LET found == SearchLoop(files, 1, <<>>)
        stripped == [i \in 1..Len(files) |-> SubHelper(files[i], 1)]
    IN  [outcome |-> IF found.err THEN "re.error" ELSE "ok",
         files |-> stripped,
         shared |-> IF ~found.err /\ found.code # <<>>
                    THEN shared \o <<NL>> \o found.code \o <<NL>>
                    ELSE shared]

\* The effect of one call on the source files and the shared file: the
\* outcome, and the files as the call leaves them.
MoveHelper(files, shared) ==
    LET found == SearchLoop(files, 1, <<>>)
    IN  IF found.err
        THEN [outcome |-> "re.error", files |-> files, shared |-> shared]
        ELSE [outcome |-> "ok",
              files |-> [i \in 1..Len(files) |-> SubHelper(files[i], 1)],
              shared |-> IF found.code # <<>>
                         THEN shared \o <<NL>> \o found.code \o <<NL>>
                         ELSE shared]

\* The writes of the removal loop from file i on, in order: a file is
\* written only if the substitution changed it.
RECURSIVE StripWrites(_, _)
StripWrites(files, i) ==
    IF i > Len(files) THEN <<>>
    ELSE (IF SubHelper(files[i], 1) # files[i]
          THEN <<[file |-> i, content |-> SubHelper(files[i], 1)]>> ELSE <<>>)
         \o StripWrites(files, i + 1)

\* The file writes of one call in the order the call makes them: the append
\* to the shared file (file 0), then the source files.  A call that raises in
\* the first loop makes none.
RunWrites(files, shared) ==
    LET found == SearchLoop(files, 1, <<>>)
    IN  IF found.err THEN <<>>
        ELSE (IF found.code # <<>>
              THEN <<[file |-> 0, content |-> shared \o <<NL>> \o found.code \o <<NL>>]>>
              ELSE <<>>)
             \o StripWrites(files, 1)

\* The files after the first k writes
RECURSIVE ApplyWrites(_, _, _, _)
ApplyWrites(files, shared, writes, k) ==
    IF k = 0 THEN [files |-> files, shared |-> shared]
    ELSE LET before == ApplyWrites(files, shared, writes, k - 1)
             w == writes[k]
         IN  IF w.file = 0 THEN [before EXCEPT !.shared = w.content]
             ELSE [before EXCEPT !.files[w.file] = w.content]

\* HN is a helper whose body has a nested brace pair.
HelperChunks == {"CL", "H", "HN", "X", "BL"}

HelperChunkTokens(c) ==
    CASE c = "BL" -> <<NL>>
      [] c = "CL" -> <<Tok("CL")>>
      [] c = "HN" -> <<Tok("H"), NL, Tok("HT"), NL>>
      [] OTHER    -> <<Tok(c), NL>>

HelperBuffers ==
    { Flatten([i \in 1..Len(cs) |-> HelperChunkTokens(cs[i])])
        : cs \in SeqsUpTo(HelperChunks, MaxHelperChunks) }

\* find_and_move_helper_to_shared(file_pattern, helper_name, shared_file)
FindAndMove ==
    /\ rlast # "idle"
    /\ Len(rhist) <= MaxRuns
    /\ LET r == MoveHelper(rfiles, rshared)
       IN  /\ rlast' = r.outcome
           /\ rfiles' = r.files
           /\ rshared' = r.shared
           /\ rhist' = Append(rhist, [files |-> r.files, shared |-> r.shared])
    /\ UNCHANGED <<pvars, cvars, dvars, bvars, gvars>>

\* A call of find_and_move_helper_to_shared whose process is stopped after
\* some of its writes
FindAndMoveStopped ==
    /\ rlast # "idle"
    /\ Len(rhist) <= MaxRuns
    /\ LET writes == RunWrites(rfiles, rshared)
       IN  \E k \in 0..Len(writes) :
             LET r == ApplyWrites(rfiles, rshared, writes, k)
             IN  /\ rlast' = "stopped"
                 /\ rfiles' = r.files
                 /\ rshared' = r.shared
                 /\ rhist' = Append(rhist, [files |-> r.files, shared |-> r.shared])
    /\ UNCHANGED <<pvars, cvars, dvars, bvars, gvars>>

-----------------------------------------------------------------------------
(* The batch scripts: fix_manager_split_files, remove_duplicate_mocks and   *)
(* fix_remaining_issues                                                     *)
(***************************************************************************)

FixFileTruncates(s) ==
    LET imports_match == SearchImports(s)
    IN  IF imports_match = 0 THEN [ok |-> FALSE, content |-> s]
        ELSE [ok |-> SearchFirstTest(s) # 0,
              content |-> SubSeq(s, 1, imports_match) \o <<NL, NL>>
                            \o (IF SearchFirstTest(s) # 0
                                THEN SubSeq(s, SearchFirstTest(s), Len(s)) ELSE <<>>)]

\* fix_manager_split_files.fix_file on the content read: ok is what it
\* returns, content what the file holds afterwards (written only on success).
FixFile(s) ==
    LET imports_match == SearchImports(s)
        first_test_match == SearchFirstTest(s)
    IN  IF imports_match = 0 THEN [ok |-> FALSE, content |-> s]
        ELSE IF first_test_match = 0 THEN [ok |-> FALSE, content |-> s]
        ELSE [ok |-> TRUE,
              content |-> SubSeq(s, 1, imports_match) \o <<NL, NL>>
                            \o SubSeq(s, first_test_match, Len(s))]

FixLineKinds == { Tok("IMP"), Tok("HLP"), Tok("N"), TestTok(<<"I">>) }

FixBuffers == { Flatten([i \in 1..Len(ls) |-> LineTokens(ls[i])])
                  : ls \in SeqsUpTo(FixLineKinds, MaxFixLines) }

\* Shorter files for the batches of fix_manager_split_files alone
ShortFixBuffers ==
    { Flatten([i \in 1..Len(ls) |-> LineTokens(ls[i])])
        : ls \in SeqsUpTo({ Tok("IMP"), Tok("HLP"), TestTok(<<"I">>) }, MaxShortLines) }

\* Import lines: kind IT is '\t"<name>"\n', IS is '    "<name>"\n' and IB is
\* '\t<name>\n'; the name is the import path.
ImportTok(kind, path) == [k |-> kind, n |-> <<path>>]

\* content.replace(pattern, '') for one of the three patterns
ReplaceImport(s, kind, import_name) ==
    SelectSeq(s, LAMBDA t : t # ImportTok(kind, import_name))

\* fix_remaining_issues.remove_unused_import on the content read
RemoveUnusedImport(s, import_name) ==
    LET new_content == ReplaceImport(ReplaceImport(ReplaceImport(s,
                           "IT", import_name), "IS", import_name), "IB", import_name)
    IN  [changed |-> new_content # s, content |-> new_content]

\* The import paths of step 3 of fix_remaining_issues.main, named by their
\* last element.
UnusedImports == <<"auth", "cache", "config", "models", "tautulli">>

\* The loop of step 3 over the import paths: the file and the list removed.
RECURSIVE RemoveImports(_, _, _)
RemoveImports(s, i, removed) ==
    IF i > Len(UnusedImports) THEN [content |-> s, removed |-> removed]
    ELSE LET r == RemoveUnusedImport(s, UnusedImports[i])
         IN  RemoveImports(r.content, i + 1,
                           IF r.changed THEN Append(removed, UnusedImports[i])
                           ELSE removed)

FmtBuffers ==
    SeqsUpTo({ ImportTok("IT", "fmt"), ImportTok("IS", "fmt"), ImportTok("IB", "fmt"),
               ImportTok("IT", "os") }, 1)

FiltersBuffers ==
    SeqsUpTo({ ImportTok("IT", "auth"), ImportTok("IT", "tautulli"),
               ImportTok("IT", "os") }, MaxImportLines)

BatchHelperBuffers == { <<>> } \cup { HelperChunkTokens(c) : c \in HelperChunks }

BatchScripts == {"fix_manager_split_files", "remove_duplicate_mocks", "fix_remaining_issues"}

\* How many files or steps main() of the script has to handle.
BatchSize == IF bscript = "fix_remaining_issues" THEN 3 ELSE Len(bfiles)

\* One turn of the loop of fix_manager_split_files.main
FixManagerFile ==
    /\ bscript = "fix_manager_split_files"
    /\ bexit = "running"
    /\ Len(bresults) < Len(bfiles)
    /\ LET i == Len(bresults) + 1
           r == FixFile(bfiles[i])
       IN  /\ bfiles' = [bfiles EXCEPT ![i] = r.content]
           /\ bresults' = Append(bresults, r.ok)
    /\ UNCHANGED <<bscript, bsrc, bexit>>
    /\ UNCHANGED <<pvars, cvars, dvars, rvars, gvars>>

\* One turn of the loop of remove_duplicate_mocks.main: either return value
\* of remove_mock_declarations is reported as handled.
RemoveDuplicatesFile ==
    /\ bscript = "remove_duplicate_mocks"
    /\ bexit = "running"
    /\ Len(bresults) < Len(bfiles)
    /\ LET i == Len(bresults) + 1
       IN  /\ bfiles' = [bfiles EXCEPT ![i] = RemoveMocks(bfiles[i])]
           /\ bresults' = Append(bresults, TRUE)
    /\ UNCHANGED <<bscript, bsrc, bexit>>
    /\ UNCHANGED <<pvars, cvars, dvars, rvars, gvars>>

\* Step 1 of fix_remaining_issues.main: "Could not remove" when nothing changed
FixRemainingStep1 ==
    /\ bscript = "fix_remaining_issues"
    /\ bexit = "running"
    /\ Len(bresults) = 0
    /\ LET r == RemoveUnusedImport(bfiles[1], "fmt")
       IN  /\ bfiles' = [bfiles EXCEPT ![1] = r.content]
           /\ bresults' = Append(bresults, r.changed)
    /\ UNCHANGED <<bscript, bsrc, bexit>>
    /\ UNCHANGED <<pvars, cvars, dvars, rvars, gvars>>

\* Step 2 of fix_remaining_issues.main: an exception of
\* find_and_move_helper_to_shared is caught nowhere and ends the process.
FixRemainingStep2 ==
    /\ bscript = "fix_remaining_issues"
    /\ bexit = "running"
    /\ Len(bresults) = 1
    /\ LET r == MoveHelper(rfiles, rshared)
       IN  /\ rlast' = r.outcome
           /\ rfiles' = r.files
           /\ rshared' = r.shared
           /\ rhist' = Append(rhist, [files |-> r.files, shared |-> r.shared])
           /\ bresults' = Append(bresults, r.outcome = "ok")
           /\ bexit' = IF r.outcome = "ok" THEN "running" ELSE "1"
    /\ UNCHANGED <<bscript, bsrc, bfiles>>
    /\ UNCHANGED <<pvars, cvars, dvars, gvars>>

\* Step 3 of fix_remaining_issues.main
FixRemainingStep3 ==
    /\ bscript = "fix_remaining_issues"
    /\ bexit = "running"
    /\ Len(bresults) = 2
    /\ bfiles' = [bfiles EXCEPT ![2] = RemoveImports(bfiles[2], 1, <<>>).content]
    /\ bresults' = Append(bresults, TRUE)
    /\ UNCHANGED <<bscript, bsrc, bexit>>
    /\ UNCHANGED <<pvars, cvars, dvars, rvars, gvars>>

\* main() returns and the process ends; no script sets an exit status.
MainReturns ==
    /\ bexit = "running"
    /\ Len(bresults) = BatchSize
    /\ bexit' = "0"
    /\ UNCHANGED <<bscript, bsrc, bfiles, bresults>>
    /\ UNCHANGED <<pvars, cvars, dvars, rvars, gvars>>

-----------------------------------------------------------------------------
(* generate_mock_stubs                                                      *)
(*                                                                          *)
(* A line of the interface body is a record: kind "sig" for a method        *)
(* signature, "comment" for a // line, "blank" for an empty line.  A        *)
(* signature has the method name, the shape of its parameter list and the   *)
(* shape of its result:                                                     *)
(*   params  "plain"     (sessionKey string)      no ")" and no "}" inside  *)
(*           "callback"  (fn func() bool)         a ")" inside              *)
(*           "brace"     (opts map[string]interface{})   a "}" inside       *)
(*           "cut"       (opts map[string]interface{     what [^}]+ leaves  *)
(*   result  "pair"      a parenthesized pair, the second being error       *)
(*           "error"     error                                              *)
(*           "cut"       nothing, the line was cut in the parameters        *)
(***************************************************************************)

Sig(nm, params, result) == [kind |-> "sig", name |-> nm, params |-> params, result |-> result]

CommentLine == [kind |-> "comment", name |-> "", params |-> "", result |-> ""]

BlankLine == [kind |-> "blank", name |-> "", params |-> "", result |-> ""]

MethodNames == {"Ping", "GetActivity", "GetUsers"}

SigLines == { Sig(nm, ps, rs) : nm \in MethodNames, ps \in {"plain", "callback", "brace"},
                                rs \in {"pair", "error"} }

InterfaceBodies == SeqsUpTo(SigLines \cup {CommentLine, BlankLine}, MaxSigs)

\* group(1) of r'type TautulliClientInterface interface \{([^}]+)\}': the body
\* up to the first "}", which cuts the first line that has one.
RECURSIVE InterfaceBody(_, _)
InterfaceBody(lines, i) ==
    IF i > Len(lines) THEN <<>>
    ELSE IF lines[i].kind = "sig" /\ lines[i].params = "brace"
         THEN <<Sig(lines[i].name, "cut", "cut")>>
         ELSE <<lines[i]>> \o InterfaceBody(lines, i + 1)

\* extract_interface_methods: the stripped lines that are neither empty nor
\* comments.
extract_interface_methods(lines) ==
    SelectSeq(InterfaceBody(lines, 1), LAMBDA l : l.kind = "sig")

\* re.match(r'(\w+)\([^)]*\)\s*\(([^)]+)\)', signature)
SignatureMatches(signature) ==
    /\ signature.params = "plain"
    /\ signature.result = "pair"

\* generate_stub_method: <<>> stands for the empty string, else the one stub
\* with the signature it repeats and the type whose zero value it returns.
generate_stub_method(signature) ==
    IF ~SignatureMatches(signature) THEN <<>>
    ELSE <<[signature |-> signature, returns |-> "T"]>>

implemented == {"GetHistorySince", "GetGeoIPLookup", "Ping", "DeleteExport"}

\* The loop of main over the methods, from index i on
RECURSIVE PrintStubs(_, _)
PrintStubs(methods, i) ==
    IF i > Len(methods) THEN <<>>
    ELSE LET method_name == methods[i].name
         IN  (IF method_name \notin implemented
              THEN generate_stub_method(methods[i]) ELSE <<>>)
             \o PrintStubs(methods, i + 1)

\* generate_mock_stubs.main
StubMain ==
    /\ gpc = "start"
    /\ gstubs' = PrintStubs(extract_interface_methods(gbody), 1)
    /\ gpc' = "done"
    /\ UNCHANGED gbody
    /\ UNCHANGED <<pvars, cvars, dvars, rvars, bvars>>

-----------------------------------------------------------------------------
(* Specifications *)

vars == <<pvars, cvars, dvars, rvars, bvars, gvars>>

PartIdle ==
    /\ script = ""
    /\ content = <<>>
    /\ pc = "idle"
    /\ sections = NoSections
    /\ outputs = NoTests

ClassIdle ==
    /\ table = <<>>
    /\ name = <<>>
    /\ label = "idle"

DedupIdle ==
    /\ dsrc = <<>>
    /\ dfile = <<>>
    /\ dret = <<>>
    /\ dwrites = 0

RelocIdle ==
    /\ rfiles = <<>>
    /\ rshared = <<>>
    /\ rlast = "idle"
    /\ rhist = <<>>

BatchIdle ==
    /\ bscript = ""
    /\ bsrc = <<>>
    /\ bfiles = <<>>
    /\ bresults = <<>>
    /\ bexit = "idle"

StubIdle ==
    /\ gbody = <<>>
    /\ gstubs = <<>>
    /\ gpc = "idle"

PartInit ==
    /\ script \in Scripts
    /\ content \in Buffers
    /\ pc = "start"
    /\ sections = NoSections
    /\ outputs = NoTests
    /\ ClassIdle /\ DedupIdle /\ RelocIdle /\ BatchIdle /\ StubIdle

PartNext == CrudMain \/ ManagerMain \/ HandlersMain \/ TautulliMain

PartSpec == PartInit /\ [][PartNext]_vars

ClassInit ==
    /\ table \in Tables
    /\ name \in ClassNames
    /\ label = ""
    /\ PartIdle /\ DedupIdle /\ RelocIdle /\ BatchIdle /\ StubIdle

ClassNext == Classify

ClassSpec == ClassInit /\ [][ClassNext]_vars

DedupInit ==
    /\ dsrc \in MockBuffersUpTo(MaxChunks)
    /\ dfile = dsrc
    /\ dret = <<>>
    /\ dwrites = 0
    /\ PartIdle /\ ClassIdle /\ RelocIdle /\ BatchIdle /\ StubIdle

DedupNext == RemoveMockDeclarations

RelocInit ==
    /\ rfiles \in SeqsUpTo(HelperBuffers, MaxFiles)
    /\ rshared \in { <<>>, <<Tok("X"), NL>> }
    /\ rlast = "none"
    /\ rhist = <<[files |-> rfiles, shared |-> rshared]>>
    /\ PartIdle /\ ClassIdle /\ DedupIdle /\ BatchIdle /\ StubIdle

RelocNext == FindAndMove

\* Runs of find_and_move_helper_to_shared of which any may be stopped, on
\* shorter source files
StopBuffers ==
    { Flatten([i \in 1..Len(cs) |-> HelperChunkTokens(cs[i])])
        : cs \in SeqsUpTo(HelperChunks, MaxStopChunks) }

RelocStopInit ==
    /\ rfiles \in SeqsUpTo(StopBuffers, MaxStopFiles)
    /\ rshared \in { <<>>, <<Tok("X"), NL>> }
    /\ rlast = "none"
    /\ rhist = <<[files |-> rfiles, shared |-> rshared]>>
    /\ PartIdle /\ ClassIdle /\ DedupIdle /\ BatchIdle /\ StubIdle

RelocStopNext == FindAndMove \/ FindAndMoveStopped

RelocStopSpec == RelocStopInit /\ [][RelocStopNext]_vars

BatchInit ==
    /\ bscript \in BatchScripts
    /\ bresults = <<>>
    /\ bexit = "running"
    /\ \/ /\ bscript = "fix_manager_split_files"
          /\ bfiles \in SeqsUpTo(FixBuffers, MaxFiles)
          /\ RelocIdle
       \/ /\ bscript = "remove_duplicate_mocks"
          /\ bfiles \in SeqsUpTo(MockBuffersUpTo(MaxBatchChunks), MaxFiles)
          /\ RelocIdle
       \/ /\ bscript = "fix_remaining_issues"
          /\ bfiles \in { <<f1, f3>> : f1 \in FmtBuffers, f3 \in FiltersBuffers }
          /\ rfiles \in SeqsUpTo(BatchHelperBuffers, MaxFiles)
          /\ rshared = <<>>
          /\ rlast = "none"
          /\ rhist = <<[files |-> rfiles, shared |-> rshared]>>
    /\ bsrc = bfiles
    /\ PartIdle /\ ClassIdle /\ DedupIdle /\ StubIdle

BatchNext ==
    \/ FixManagerFile
    \/ RemoveDuplicatesFile
    \/ FixRemainingStep1
    \/ FixRemainingStep2
    \/ FixRemainingStep3
    \/ MainReturns

BatchSpec == BatchInit /\ [][BatchNext]_vars

\* The batch of fix_manager_split_files alone
FixInit ==
    /\ bscript = "fix_manager_split_files"
    /\ bfiles \in SeqsUpTo(ShortFixBuffers, MaxFixFiles)
    /\ bsrc = bfiles
    /\ bresults = <<>>
    /\ bexit = "running"
    /\ PartIdle /\ ClassIdle /\ DedupIdle /\ RelocIdle /\ StubIdle

FixNext == FixManagerFile \/ MainReturns

FixSpec == FixInit /\ [][FixNext]_vars

StubInit ==
    /\ gbody \in InterfaceBodies
    /\ gstubs = <<>>
    /\ gpc = "start"
    /\ PartIdle /\ ClassIdle /\ DedupIdle /\ RelocIdle /\ BatchIdle

StubNext == StubMain

StubSpec == StubInit /\ [][StubNext]_vars

RelocSpec == RelocInit /\ [][RelocNext]_vars

DedupSpec == DedupInit /\ [][DedupNext]_vars

-----------------------------------------------------------------------------
(* Properties of the Partitioner *)

\* The declaration names a scan of a buffer with the test pattern recovers.
NamesOf(s) == [i \in 1..Len(TestPositions(s)) |-> TestPositions(s)[i].name]

Count(x, seq) == Cardinality({ i \in 1..Len(seq) : seq[i] = x })

Written == { c \in Labels : outputs[c] # <<>> }

\* C1 (as claimed): after a run, every declaration name occurs in the category
\* outputs, taken together, exactly as often as in the input buffer, and no
\* name occurs in the output of more than one category.
C1_Conservation ==
    pc = "done" =>
        /\ \A nm \in Names :
              Count(nm, Flatten([i \in 1..Len(CATEGORIES) + 1 |->
                           NamesOf(outputs[IF i <= Len(CATEGORIES)
                                           THEN CATEGORIES[i].label ELSE "misc"])]))
                = Count(nm, NamesOf(content))
        /\ \A nm \in Names :
              Cardinality({ c \in Labels : Count(nm, NamesOf(outputs[c])) > 0 }) <= 1

IsPrefix(p, s) == Len(p) <= Len(s) /\ SubSeq(s, 1, Len(p)) = p

\* C7 (as claimed): every category output of a run begins with the same
\* preamble, and the package clause and import block it begins with occur in
\* the source buffer.
C7_PreambleFromSource ==
    pc = "done" =>
        \A c \in Written :
            /\ \A d \in Written :
                  \E n \in 1..Len(outputs[c]) :
                      /\ outputs[c][n].k \in {"PKG", "DPKG"}
                      /\ IsPrefix(SubSeq(outputs[c], 1, n), outputs[d])
            /\ \E i \in 1..Len(content) : content[i] = outputs[c][1]

\* The text a script searches for the package clause and the import block:
\* the part before the first test at the start of a line in split_crud_tests
\* and split_manager_tests, the whole buffer in the other two.
SearchedHeader ==
    IF script \in {"crud", "manager"}
    THEN LET starts == { i \in 1..Len(content) :
                           content[i].k \in {"T", "N"} /\ AtLineStart(content, i) }
         IN  IF starts = {} THEN <<>> ELSE SubSeq(content, 1, Min(starts) - 1)
    ELSE content

\* C7 (amended): every category output of a run begins with the same preamble:
\* the package clause found in the searched header, or the script's fixed
\* default clause when there is none, a blank line, the first parenthesized
\* import block of the searched header, or nothing when there is none, and a
\* blank line.
C7_PreambleOrDefault ==
    pc = "done" =>
        LET h == SearchedHeader
            pkg == IF \E i \in 1..Len(h) : h[i].k = "PKG" /\ AtLineStart(h, i)
                   THEN <<Tok("PKG")>> ELSE <<Tok("DPKG")>>
            imp == IF \E i \in 1..Len(h) : h[i].k = "IMP"
                   THEN <<Tok("IMP")>> ELSE <<>>
        IN  \A c \in Written :
                IsPrefix(pkg \o <<NL, NL>> \o imp \o <<NL, NL>>, outputs[c])

\* A run on a source without package clause wrote two files, both beginning
\* with the default clause and the import block of the source.
C7_Witness ==
    /\ pc = "done"
    /\ Cardinality(Written) = 2
    /\ \A i \in 1..Len(content) : content[i].k # "PKG"
    /\ \A c \in Written : /\ outputs[c][1] = Tok("DPKG")
                          /\ outputs[c][4] = Tok("IMP")

\* C8 (as claimed): the declaration spans are ordered by start and disjoint,
\* and every part of the input that is not whitespace lies in the preamble or
\* a declaration span and so is carried into an output of the run.
C8_Coverage ==
    (pc = "done" /\ Written # {}) =>
        /\ \A i, j \in 1..Len(TestPositions(content)) :
              i < j => TestPositions(content)[i].start < TestPositions(content)[j].start
        /\ \A i \in 1..Len(content) :
              content[i] # NL =>
                  \E c \in Written : \E j \in 1..Len(outputs[c]) :
                      outputs[c][j] = content[i]

\* C10 (as claimed): a run on a buffer without any declaration ends without
\* an error, with an empty category mapping and no file written.
C10_EmptyScan ==
    (pc # "start" /\ TestPositions(content) = <<>>) =>
        /\ pc = "done"
        /\ sections.err = ""
        /\ sections.tests = NoTests
        /\ Written = {}

-----------------------------------------------------------------------------
(* Properties of the CategoryClassifier *)

\* C5: the returned label is that of the first rule, in table order, with a
\* keyword that is a substring of the name, and it is "misc" exactly when no
\* rule has such a keyword.
C5_FirstRuleWins ==
    (label # "" /\ label # "idle") =>
        LET matching == { i \in 1..Len(table) :
                            \E j \in 1..Len(table[i].keywords) :
                                IsSubstring(table[i].keywords[j], name) }
        IN  /\ matching # {} =>
                  \E i \in matching : /\ \A j \in matching : i <= j
                                      /\ label = table[i].label
            /\ label = "misc" <=> matching = {}

\* A name that has keywords of two rules got the label of the earlier one.
C5_Witness ==
    /\ Len(table) = 2
    /\ RuleMatches(table[1], name)
    /\ RuleMatches(table[2], name)
    /\ label = table[1].label

\* The "// Helper functions" markers after the start of the last declaration
MarkersAfterLast ==
    LET pos == TestPositions(content)
    IN  IF pos = <<>> THEN {}
        ELSE { j \in (pos[Len(pos)].start + 1)..Len(content) : content[j].k = "MARK" }

\* C15 (as claimed): when split_tautulli_tests has run on a buffer with the
\* marker after the start of the last declaration, the shared-helpers region
\* is the content from that marker to the end of the buffer and nothing else,
\* the last declaration holds no marker, and no declaration is in the
\* shared-helpers region.
C15_SentinelRegion ==
    (script = "tautulli" /\ pc = "done" /\ MarkersAfterLast # {}) =>
        LET pos == TestPositions(content)
            last == sections.tests[categorize_test(pos[Len(pos)].name)]
        IN  /\ sections.helpers = SubSeq(content, Min(MarkersAfterLast), Len(content))
            /\ \A i \in 1..Len(last[Len(last)]) : last[Len(last)][i].k # "MARK"
            /\ \A i \in 1..Len(sections.helpers) : sections.helpers[i].k # "T"

\* An import without parentheses is in s.
SingleImportIn(s) == \E i \in 1..Len(s) : s[i].k = "IMP1"

\* C16 (as claimed): when a split_* script has run on a buffer that has no
\* parenthesized import block and has an import without parentheses before
\* its first declaration, the import section is empty and every file written
\* holds the import.
C16_ImportFallback ==
    (/\ pc = "done"
     /\ SearchImports(content) = 0
     /\ TestPositions(content) # <<>>
     /\ SingleImportIn(SubSeq(content, 1, TestPositions(content)[1].start - 1))) =>
        /\ sections.imports = <<>>
        /\ \A c \in Written : SingleImportIn(outputs[c])

-----------------------------------------------------------------------------
(* Properties of the Deduplicator *)

\* re.finditer of the two patterns: the matches, in document order.
RECURSIVE DbSpans(_, _)
DbSpans(s, i) ==
    IF i > Len(s) THEN <<>>
    ELSE IF DbMatchEnd(s, i) # 0
         THEN <<[start |-> i, end |-> DbMatchEnd(s, i)]>> \o DbSpans(s, DbMatchEnd(s, i) + 1)
         ELSE DbSpans(s, i + 1)

RECURSIVE ClientSpans(_, _)
ClientSpans(s, i) ==
    IF i > Len(s) THEN <<>>
    ELSE IF ClientMatchEnd(s, i) # 0
         THEN <<[start |-> i, end |-> ClientMatchEnd(s, i)]>>
                  \o ClientSpans(s, ClientMatchEnd(s, i) + 1)
         ELSE ClientSpans(s, i + 1)

MatchCount(s) == Len(DbSpans(s, 1)) + Len(ClientSpans(s, 1))

\* s without the tokens of the spans
Without(s, spans) ==
    LET kept == { i \in 1..Len(s) :
                    \A n \in 1..Len(spans) : i < spans[n].start \/ i > spans[n].end }
        RECURSIVE Pick(_)
        Pick(i) == IF i > Len(s) THEN <<>>
                   ELSE IF i \in kept THEN <<s[i]>> \o Pick(i + 1) ELSE Pick(i + 1)
    IN  Pick(1)

\* C2 (as claimed): after the call on a file with k >= 1 matches of the mock
\* block, exactly one copy of the block is left in the file.
C2_KeepsFirst ==
    (Len(dret) = 1 /\ MatchCount(dsrc) >= 1) => MatchCount(dfile) = 1

\* C2 (amended): the call on a file with k >= 1 matches removes every match,
\* the first in document order included: the file is rewritten without any of
\* the matched spans and the call returns True.
C2_AllMatchesRemoved ==
    Len(dret) = 1 =>
        LET mid == Without(dsrc, DbSpans(dsrc, 1))
        IN  /\ dfile = Without(mid, ClientSpans(mid, 1))
            /\ MatchCount(dsrc) >= 1 =>
                  /\ dret[1] = TRUE
                  /\ dwrites = 1
                  /\ Len(dfile) < Len(dsrc)
                  /\ (DbSpans(dsrc, 1) # <<>> =>
                         Len(dfile) <= Len(dsrc) - (DbSpans(dsrc, 1)[1].end
                                                    - DbSpans(dsrc, 1)[1].start + 1))

\* A call on a file with two mockDB blocks left none of them.
C2_Witness ==
    /\ Len(dret) = 1
    /\ Len(DbSpans(dsrc, 1)) = 2
    /\ dret[1] = TRUE
    /\ MatchCount(dfile) = 0

\* C12 (as claimed): a second call on the file the first call left changes
\* nothing: the file still holds what the first call computed, the second
\* call returns False and does not write the file.
C12_DedupFixedPoint ==
    Len(dret) >= 2 =>
        /\ dfile = RemoveMocks(dsrc)
        /\ dret[2] = FALSE
        /\ dwrites = (IF dret[1] THEN 1 ELSE 0)

-----------------------------------------------------------------------------
(* Properties of the BlockRelocator *)

HelperIn(s) == \E i \in 1..Len(s) : s[i].k = "H"

\* The first occurrence of the helper in file order, with the comment line
\* directly before it.
FirstCopy(files) ==
    LET f == Min({ i \in 1..Len(files) : HelperIn(files[i]) })
        h == Min({ j \in 1..Len(files[f]) : files[f][j].k = "H" })
    IN  IF KindAt(files[f], h - 1) = "CL" THEN <<Tok("CL"), Tok("H")>> ELSE <<Tok("H")>>

\* C3 (as claimed): a run on source files of which at least one holds the
\* helper completes, has appended exactly one copy, the first occurrence in
\* file order, to the destination, and has left the helper in no source file.
C3_Relocated ==
    (Len(rhist) = 2 /\ \E i \in 1..Len(rhist[1].files) : HelperIn(rhist[1].files[i])) =>
        /\ rlast = "ok"
        /\ rshared = rhist[1].shared \o <<NL>> \o FirstCopy(rhist[1].files) \o <<NL>>
        /\ \A i \in 1..Len(rfiles) : ~HelperIn(rfiles[i])

\* C4 (as claimed): the second of two runs in succession completes having
\* found the helper in no source file, and leaves every file as the first run
\* left it.
C4_SecondRunNoOp ==
    Len(rhist) = 3 =>
        /\ rlast = "ok"
        /\ \A i \in 1..Len(rhist[2].files) : ~HelperIn(rhist[2].files[i])
        /\ rhist[3] = rhist[2]

\* The rest of a helper body with a nested brace pair is in s.
TailIn(s) == \E i \in 1..Len(s) : s[i].k = "HT"

\* C14 (as claimed): a run on source files of which one holds the helper with
\* a nested brace pair in its body completes, has extracted the body up to
\* the brace that closes the function (the destination holds the rest of the
\* body too) and has left no part of the body in any source file.
C14_BodyExtent ==
    (Len(rhist) = 2 /\ \E i \in 1..Len(rhist[1].files) : TailIn(rhist[1].files[i])) =>
        /\ rlast = "ok"
        /\ TailIn(rshared)
        /\ \A i \in 1..Len(rfiles) : ~HelperIn(rfiles[i]) /\ ~TailIn(rfiles[i])

-----------------------------------------------------------------------------
(* Properties of the batch scripts *)

\* C9 (as claimed): when the process of a batch script has ended, every file
\* or step of the batch was handled, and the exit status is success exactly
\* when every one of them succeeded.
C9_BatchStatus ==
    bexit \in {"0", "1"} =>
        /\ Len(bresults) = BatchSize
        /\ bexit = "0" <=> \A i \in 1..Len(bresults) : bresults[i]

\* A file fix_file cannot fix: no parenthesized import block, or no test
\* function at the start of a line.
NoMatchFound(s) == SearchImports(s) = 0 \/ SearchFirstTest(s) = 0

\* C13: in a batch of fix_manager_split_files, a file without the import
\* block or without a line-start test is reported as failed and holds what it
\* held before; the files handled before it keep what fix_file wrote to them
\* (the import block, two newlines, the text from the first test on); the
\* files not yet handled are as they were; and when main has returned every
\* file of the batch was handled.
C13_NoMatchPerFile ==
    bscript = "fix_manager_split_files" =>
        /\ Len(bfiles) = Len(bsrc)
        /\ \A i \in 1..Len(bresults) :
              IF NoMatchFound(bsrc[i])
              THEN bresults[i] = FALSE /\ bfiles[i] = bsrc[i]
              ELSE /\ bresults[i] = TRUE
                   /\ bfiles[i] = SubSeq(bsrc[i], 1, SearchImports(bsrc[i])) \o <<NL, NL>>
                        \o SubSeq(bsrc[i], SearchFirstTest(bsrc[i]), Len(bsrc[i]))
        /\ \A i \in (Len(bresults) + 1)..Len(bfiles) : bfiles[i] = bsrc[i]
        /\ bexit # "running" => (bexit = "0" /\ Len(bresults) = Len(bfiles))

\* main has returned from a batch whose first file was fixed and rewritten,
\* and whose second file has an import block but no test.
C13_Witness ==
    /\ bscript = "fix_manager_split_files"
    /\ bexit = "0"
    /\ bresults = <<TRUE, FALSE>>
    /\ bfiles[1] # bsrc[1]
    /\ SearchImports(bsrc[2]) # 0
    /\ bfiles[2] = bsrc[2]

\* C18 (as claimed): a file fix_file has fixed is a fixed point of fix_file,
\* and it is no longer than the file was before plus the separator of two
\* newlines.
C18_FixFileIdempotent ==
    bscript = "fix_manager_split_files" =>
        \A i \in 1..Len(bresults) :
            bresults[i] =>
                /\ FixFile(bfiles[i]).ok
                /\ FixFile(bfiles[i]).content = bfiles[i]
                /\ Len(bfiles[i]) <= Len(bsrc[i]) + 2

-----------------------------------------------------------------------------
(* Properties of the stub generator *)

\* C11 (as claimed): when main has returned, every method signature of the
\* interface body whose name is not already implemented has exactly one stub
\* (as many stubs repeat a signature as lines of the body hold it), whatever
\* the shape of its result, and no stub is for an implemented method.
C11_StubCompleteness ==
    gpc = "done" =>
        /\ \A i \in 1..Len(gbody) :
              (gbody[i].kind = "sig" /\ gbody[i].name \notin implemented) =>
                  Cardinality({ j \in 1..Len(gstubs) : gstubs[j].signature = gbody[i] })
                      = Count(gbody[i], gbody)
        /\ \A j \in 1..Len(gstubs) : gstubs[j].signature.name \notin implemented

=============================================================================
